---------------------------- MODULE Spec2Model ----------------------------
(***************************************************************************)
(* Galilean / Lorentz spacetime animations (lorentz_utils.py, galilean.py, *)
(* lorentz.py).                                                            *)
(*                                                                         *)
(* Numbers.  A Python number is modelled by its exact value.  Every        *)
(* irrational value the programs compute is a multiple of                  *)
(* sqrt(1 - v^2) for the velocity v of the call, so a finite value is      *)
(* a + b*sqrt(d) with a, b, d rationals in lowest terms (b = 0 for a       *)
(* rational value) and arithmetic is exact in that field.  The binary64    *)
(* rounding of each operation is not modelled: an equality checked here    *)
(* is an equality of the exact results, which binary64 matches up to       *)
(* rounding (the tests compare with pytest.approx).  The IEEE special      *)
(* values numpy produces (inf for a division by zero, nan for the square   *)
(* root of a negative number, nan for inf*0) ARE modelled, together with   *)
(* the floating-point error each one raises, and so is the int/float type  *)
(* of a value (field f).                                                   *)
(*                                                                         *)
(* Evaluation.  Each arithmetic operator binds its operands to their       *)
(* values first (x \in {x0}) and computes its result from the values: TLC  *)
(* evaluates an operator argument again at each use when it computes       *)
(* ENABLED, which the fairness condition of SpecFair needs at every state. *)
(***************************************************************************)
EXTENDS Integers, Sequences, FiniteSets, TLC

VARIABLES
    args,      \* pure-function harness: the call (function name and arguments)
    ret,       \* pure-function harness: what the call returned or raised
    fpe,       \* numpy floating-point errors raised by the call / the last animate
    prog,      \* the script being run: "galilean.py" or "lorentz.py"
    pc,        \* position of the script
    anim,      \* the animation being rendered
    frame,     \* next frame index FuncAnimation hands to animate
    v,         \* velocity computed by the last animate call
    axes,      \* what is drawn on each axes of the current figure
    saved,     \* the MP4 files written so far, in order
    grabbed,   \* frame indices the writer has grabbed for the current file, in order
    failed     \* the call whose exception ended the script, "none" while none has

vars == <<args, ret, fpe, prog, pc, anim, frame, v, axes, saved, grabbed, failed>>

(***************************************************************************)
(* Rationals <<n, m>>, m > 0, in lowest terms.                             *)
(***************************************************************************)
Abs(n) == IF n < 0 THEN -n ELSE n

Sgn(n) == IF n < 0 THEN -1 ELSE IF n > 0 THEN 1 ELSE 0

RECURSIVE GCD(_, _)
GCD(a0, b0) ==
    CHOOSE r \in {
        IF b = 0 THEN a ELSE GCD(b, a % b)
        : a \in {a0}, b \in {b0}} : TRUE

QNorm(n0, m0) ==
    CHOOSE r \in {
        LET g == GCD(Abs(n), Abs(m))
            s == IF m < 0 THEN -1 ELSE 1
        IN  <<(s * n) \div g, (s * m) \div g>>
        : n \in {n0}, m \in {m0}} : TRUE

QZero == <<0, 1>>

QOne == <<1, 1>>

QNeg(p0) ==
    CHOOSE r \in {
        <<-p[1], p[2]>>
        : p \in {p0}} : TRUE

QAdd(p0, q0) ==
    CHOOSE r \in {
        LET g == GCD(p[2], q[2])
        IN  QNorm(p[1] * (q[2] \div g) + q[1] * (p[2] \div g), (p[2] \div g) * q[2])
        : p \in {p0}, q \in {q0}} : TRUE

QMul(p0, q0) ==
    CHOOSE r \in {
        LET g1 == GCD(Abs(p[1]), q[2])
            g2 == GCD(Abs(q[1]), p[2])
        IN  IF p[1] = 0 \/ q[1] = 0 THEN QZero
            ELSE <<(p[1] \div g1) * (q[1] \div g2), (p[2] \div g2) * (q[2] \div g1)>>
        : p \in {p0}, q \in {q0}} : TRUE

QInv(p0) ==
    CHOOSE r \in {
        IF p[1] < 0 THEN <<-p[2], -p[1]>> ELSE <<p[2], p[1]>>
        : p \in {p0}} : TRUE

QSgn(p) == Sgn(p[1])

QAbs(p0) ==
    CHOOSE r \in {
        <<Abs(p[1]), p[2]>>
        : p \in {p0}} : TRUE

\* sign of a/b - c/d for a, c >= 0 and b, d > 0, by continued fractions (no products)
RECURSIVE CmpFrac(_, _, _, _)
CmpFrac(a0, b0, c0, d0) ==
    CHOOSE r \in {
        LET qa == a \div b
            qc == c \div d
            ra == a % b
            rc == c % d
        IN  IF qa # qc THEN Sgn(qa - qc)
            ELSE IF ra = 0 /\ rc = 0 THEN 0
            ELSE IF ra = 0 THEN -1
            ELSE IF rc = 0 THEN 1
            ELSE CmpFrac(d, rc, b, ra)
        : a \in {a0}, b \in {b0}, c \in {c0}, d \in {d0}} : TRUE

\* sign of p - q
QCmp(p0, q0) ==
    CHOOSE r \in {
        IF QSgn(p) # QSgn(q) THEN Sgn(QSgn(p) - QSgn(q))
        ELSE IF QSgn(p) >= 0 THEN CmpFrac(p[1], p[2], q[1], q[2])
        ELSE CmpFrac(-q[1], q[2], -p[1], p[2])
        : p \in {p0}, q \in {q0}} : TRUE

RECURSIVE ISqrtIn(_, _, _)
ISqrtIn(n0, lo0, hi0) ==
    CHOOSE r \in {
        IF lo >= hi THEN lo
        ELSE LET mid == (lo + hi + 1) \div 2
             IN  IF mid * mid <= n THEN ISqrtIn(n, mid, hi) ELSE ISqrtIn(n, lo, mid - 1)
        : n \in {n0}, lo \in {lo0}, hi \in {hi0}} : TRUE

\* floor of the square root of n >= 0 (46340^2 is the largest square of the int range)
ISqrt(n0) ==
    CHOOSE r \in {
        ISqrtIn(n, 0, IF n < 46340 THEN n ELSE 46340)
        : n \in {n0}} : TRUE

IsSquare(n0) ==
    CHOOSE r \in {
        ISqrt(n) * ISqrt(n) = n
        : n \in {n0}} : TRUE

(***************************************************************************)
(* Python / numpy numbers.                                                 *)
(***************************************************************************)
Fin(isf0, a0, b0, d0) ==
    CHOOSE r \in {
        IF b = QZero THEN [k |-> "fin", f |-> isf, a |-> a, b |-> QZero, d |-> QZero]
        ELSE [k |-> "fin", f |-> isf, a |-> a, b |-> b, d |-> d]
        : isf \in {isf0}, a \in {a0}, b \in {b0}, d \in {d0}} : TRUE

Special(kind) == [k |-> kind, f |-> TRUE, a |-> QZero, b |-> QZero, d |-> QZero]

NaN == Special("nan")

PosInf == Special("inf")

NegInf == Special("-inf")

\* the Python int n
I(n) == Fin(FALSE, <<n, 1>>, QZero, QZero)

\* the Python float n/m
F(n, m) == Fin(TRUE, QNorm(n, m), QZero, QZero)

IsFin(x) == x.k = "fin"

IsInf(x) == x.k \in {"inf", "-inf"}

\* sign of a finite a + b*sqrt(d)
FinSign(x0) ==
    CHOOSE r \in {
        LET sa == QSgn(x.a)
            sb == QSgn(x.b)
        IN  IF sb = 0 THEN sa
            ELSE IF sa = 0 \/ sa = sb THEN sb
            \* a^2 against b^2 d, as |a|/|b| against |b| d/|a|
            ELSE IF QCmp(QMul(QAbs(x.a), QInv(QAbs(x.b))),
                         QMul(QMul(QAbs(x.b), x.d), QInv(QAbs(x.a)))) > 0 THEN sa ELSE sb
        : x \in {x0}} : TRUE

Sign(x0) ==
    CHOOSE r \in {
        IF x.k = "inf" THEN 1 ELSE IF x.k = "-inf" THEN -1 ELSE FinSign(x)
        : x \in {x0}} : TRUE

IsZero(x0) ==
    CHOOSE r \in {
        IsFin(x) /\ x.a = QZero /\ x.b = QZero
        : x \in {x0}} : TRUE

\* the radicand two operands share
Rad(x, y) == IF x.b # QZero THEN x.d ELSE y.d

Neg(x0) ==
    CHOOSE r \in {
        IF x.k = "nan" THEN NaN
        ELSE IF x.k = "inf" THEN NegInf
        ELSE IF x.k = "-inf" THEN PosInf
        ELSE Fin(x.f, QNeg(x.a), QNeg(x.b), x.d)
        : x \in {x0}} : TRUE

Add(x0, y0) ==
    CHOOSE r \in {
        IF x.k = "nan" \/ y.k = "nan" THEN NaN
        ELSE IF IsInf(x) /\ IsInf(y) THEN (IF x.k = y.k THEN x ELSE NaN)
        ELSE IF IsInf(x) THEN x
        ELSE IF IsInf(y) THEN y
        ELSE Fin(x.f \/ y.f, QAdd(x.a, y.a), QAdd(x.b, y.b), Rad(x, y))
        : x \in {x0}, y \in {y0}} : TRUE

Sub(x, y) == Add(x, Neg(y))

Mul(x0, y0) ==
    CHOOSE r \in {
        IF x.k = "nan" \/ y.k = "nan" THEN NaN
        ELSE IF IsInf(x) \/ IsInf(y) THEN
            (IF IsZero(x) \/ IsZero(y) THEN NaN
             ELSE IF Sign(x) * Sign(y) > 0 THEN PosInf ELSE NegInf)
        ELSE LET d == Rad(x, y)
             IN  Fin(x.f \/ y.f,
                     QAdd(QMul(x.a, y.a), QMul(x.b, QMul(y.b, d))),
                     QAdd(QMul(x.a, y.b), QMul(x.b, y.a)),
                     d)
        : x \in {x0}, y \in {y0}} : TRUE

\* 1/y for a finite y # 0:  (a - b sqrt d) / (a^2 - b^2 d)
FinInv(y0) ==
    CHOOSE r \in {
        IF y.b = QZero THEN Fin(TRUE, QInv(y.a), QZero, QZero)
        ELSE LET n == QAdd(QMul(y.a, y.a), QNeg(QMul(y.b, QMul(y.b, y.d))))
             IN  Fin(TRUE, QMul(y.a, QInv(n)), QNeg(QMul(y.b, QInv(n))), y.d)
        : y \in {y0}} : TRUE

\* x / y where y is a numpy float64: a zero divisor gives inf or nan, not an exception
NpDiv(x0, y0) ==
    CHOOSE r \in {
        IF x.k = "nan" \/ y.k = "nan" THEN NaN
        ELSE IF IsInf(y) THEN (IF IsInf(x) THEN NaN ELSE F(0, 1))
        ELSE IF IsZero(y) THEN
            (IF IsZero(x) THEN NaN ELSE IF Sign(x) > 0 THEN PosInf ELSE NegInf)
        ELSE Mul(x, FinInv(y))
        : x \in {x0}, y \in {y0}} : TRUE

\* np.sqrt of a rational, inf or nan
NpSqrt(x0) ==
    CHOOSE r \in {
        IF x.k = "nan" \/ x.k = "-inf" THEN NaN
        ELSE IF x.k = "inf" THEN PosInf
        ELSE IF QSgn(x.a) < 0 THEN NaN
        ELSE IF IsSquare(x.a[1]) /\ IsSquare(x.a[2])
             THEN Fin(TRUE, <<ISqrt(x.a[1]), ISqrt(x.a[2])>>, QZero, QZero)
        ELSE Fin(TRUE, QZero, QOne, x.a)
        : x \in {x0}} : TRUE

\* Python ==, <, <= on numbers: the type is ignored, nan compares false
Eq(x0, y0) ==
    CHOOSE r \in {
        /\ x.k # "nan"
        /\ x.k = y.k
        /\ x.a = y.a
        /\ x.b = y.b
        /\ x.d = y.d
        : x \in {x0}, y \in {y0}} : TRUE

Lt(x0, y0) ==
    CHOOSE r \in {
        IF x.k = "nan" \/ y.k = "nan" THEN FALSE
        ELSE IF x.k = "inf" \/ y.k = "-inf" THEN FALSE
        ELSE IF x.k = "-inf" \/ y.k = "inf" THEN TRUE
        ELSE FinSign(Sub(x, y)) < 0
        : x \in {x0}, y \in {y0}} : TRUE

Le(x0, y0) ==
    CHOOSE r \in {
        Lt(x, y) \/ Eq(x, y)
        : x \in {x0}, y \in {y0}} : TRUE

\* Python max(a, b): b only when it is greater
Max(x0, y0) ==
    CHOOSE r \in {
        IF Lt(x, y) THEN y ELSE x
        : x \in {x0}, y \in {y0}} : TRUE

\* Python float(x)
Float(x0) ==
    CHOOSE r \in {
        [x EXCEPT !.f = TRUE]
        : x \in {x0}} : TRUE

\* Python x / y for a divisor y # 0 (a zero divisor raises ZeroDivisionError)
PyDiv(x, y) == Mul(Float(x), FinInv(y))

(***************************************************************************)
(* lorentz_utils.py: timing constants and physics.                         *)
(***************************************************************************)
PAUSE_FRAMES == 36

RAMP_FRAMES == 401

TOTAL_FRAMES == PAUSE_FRAMES + RAMP_FRAMES

\* the default v_max = 0.99 of ramp_v
V_MAX == F(99, 100)

\* the value gamma returns for v >= 1
SENTINEL == F(1000000, 1)

\* faulty variant of ramp_v: the ramp is spread over one frame more than n_ramp
ramp_v_long(fr, pause, n_ramp, v_max) ==
    PyDiv(Mul(v_max, Max(I(0), Sub(fr, pause))), Add(n_ramp, I(1)))

\* faulty variant of ramp_v: the ramp counts down to the pause instead of up from it
ramp_v_reversed(fr, pause, n_ramp, v_max) ==
    PyDiv(Mul(v_max, Max(I(0), Sub(pause, fr))), n_ramp)

\* faulty variant of ramp_v: the max(0, ...) clamp of the pause window left out
ramp_v_unclamped(fr, pause, n_ramp, v_max) ==
    PyDiv(Mul(v_max, Sub(fr, pause)), n_ramp)

\* def ramp_v(frame, pause, n_ramp, v_max): v_max * max(0, frame - pause) / n_ramp
ramp_v(fr, pause, n_ramp, v_max) ==
    PyDiv(Mul(v_max, Max(I(0), Sub(fr, pause))), n_ramp)

\* the division of ramp_v raises ZeroDivisionError
ramp_v_raises(fr, pause, n_ramp, v_max) == IsZero(n_ramp)

\* faulty variant of gamma: the square root left out
gamma_no_sqrt(vel) ==
    IF Lt(vel, F(1, 1))
    THEN NpDiv(F(1, 1), Sub(F(1, 1), Mul(vel, vel)))
    ELSE SENTINEL

\* faulty variant of gamma: the guard written v <= 1.0
gamma_guard_le(vel) ==
    IF Le(vel, F(1, 1))
    THEN NpDiv(F(1, 1), NpSqrt(Sub(F(1, 1), Mul(vel, vel))))
    ELSE SENTINEL

\* faulty variant of gamma: the factor inverted
gamma_inverted(vel) ==
    IF Lt(vel, F(1, 1)) THEN NpSqrt(Sub(F(1, 1), Mul(vel, vel))) ELSE SENTINEL

\* def gamma(v): 1.0 / np.sqrt(1.0 - v**2) if v < 1.0 else 1e6
gamma(vel) ==
    IF Lt(vel, F(1, 1))
    THEN NpDiv(F(1, 1), NpSqrt(Sub(F(1, 1), Mul(vel, vel))))
    ELSE SENTINEL

\* the floating-point errors numpy signals while gamma(vel) is evaluated
gamma_fpe(vel) ==
    IF Lt(vel, F(1, 1))
    THEN LET r == Sub(F(1, 1), Mul(vel, vel))
         IN  (IF Sign(r) < 0 THEN {"invalid"} ELSE {})
                 \cup (IF IsZero(NpSqrt(r)) THEN {"divide"} ELSE {})
    ELSE {}

\* faulty variant of galilean_transform: the boost with the wrong sign
galilean_transform_plus(x, ct, vel) == <<Add(x, Mul(vel, ct)), Float(ct)>>

\* faulty variant of galilean_transform: the time coordinate boosted as well
galilean_transform_time(x, ct, vel) == <<Sub(x, Mul(vel, ct)), Float(Sub(ct, Mul(vel, x)))>>

\* def galilean_transform(x, ct, v): return x - v * ct, float(ct)
galilean_transform(x, ct, vel) == <<Sub(x, Mul(vel, ct)), Float(ct)>>

\* faulty variant of lorentz_transform: the time coordinate with the wrong sign
lorentz_transform_plus(x, ct, vel) ==
    LET g == gamma(vel)
    IN  <<Mul(g, Sub(x, Mul(vel, ct))), Mul(g, Add(ct, Mul(vel, x)))>>

\* def lorentz_transform(x, ct, v): g = gamma(v); return g*(x - v*ct), g*(ct - v*x)
lorentz_transform(x, ct, vel) ==
    LET g == gamma(vel)
    IN  <<Mul(g, Sub(x, Mul(vel, ct))), Mul(g, Sub(ct, Mul(vel, x)))>>

\* x**2 - ct**2 (test_physics.py, _interval; lorentz.py, s2A)
(***************************************************************************)
(* lorentz_utils.py: the S grid drawn over the S' grid.  A grid line is    *)
(* given by the coordinate it computes from the coordinate it is sampled   *)
(* at (X_RANGE or CT_RANGE).                                               *)
(***************************************************************************)
\* draw_S_grid_galilean, the line t = t_val: ax.axhline(y=t_val)
galilean_ct_line(X, t_val, vel) == Float(t_val)

\* draw_S_grid_galilean, the line x = x_val: x_line = x_val - v * CT_RANGE
galilean_x_line(CT, x_val, vel) == Sub(x_val, Mul(vel, CT))

\* faulty variant of lorentz_ct_line: t_val is stretched by g instead of contracted
lorentz_ct_line_stretched(X, t_val, vel, g) == Add(Mul(Neg(vel), X), Mul(t_val, g))

\* draw_S_grid_lorentz, the line t = t_val: ct_line = -v * X_RANGE + t_val / g
lorentz_ct_line(X, t_val, vel, g) == Add(Mul(Neg(vel), X), NpDiv(t_val, g))

\* draw_S_grid_lorentz, the line x = x_val: x_line = -v * CT_RANGE + x_val / g
lorentz_x_line(CT, x_val, vel, g) == Add(Mul(Neg(vel), CT), NpDiv(x_val, g))

\* faulty variant of spatial_tick: unit spacing, the contraction 1/g left out
spatial_tick_uncontracted(s_origin, n, g) == Add(s_origin, Mul(I(n), F(1, 1)))

\* draw_spatial_panel, S tick n: tick_spacing = 1.0 / g; pos = s_origin + n * tick_spacing
spatial_tick(s_origin, n, g) == Add(s_origin, Mul(I(n), NpDiv(F(1, 1), g)))

Interval(x, ct) == Sub(Mul(x, x), Mul(ct, ct))

(***************************************************************************)
(* The calls the function harness makes.                                   *)
(***************************************************************************)
MaxCoord == 2

MaxDen == 5

MaxSpeed == 2

MaxFrame == 8

MaxPause == 2

MaxRamp == 3

FrameOver == 3

\* event coordinates: the halves in [-MaxCoord, MaxCoord]; whole ones are ints
Coords ==
    {IF k % 2 = 0 THEN I(k \div 2) ELSE F(k, 2) : k \in (-2 * MaxCoord)..(2 * MaxCoord)}

\* the velocities the tests use that the grid below lacks
TestVelocities == {F(3, 10), F(7, 10), F(9, 10), F(99, 100)}

Velocities ==
    {F(p, q) : p \in (-MaxSpeed * MaxDen)..(MaxSpeed * MaxDen), q \in 1..MaxDen}
        \cup TestVelocities

VMaxes == {F(-1, 2), F(0, 1), F(1, 2), V_MAX, F(1, 1)}

NoArg == I(0)

Call(fn, x, ct, vel, fr, pause, n_ramp, v_max) ==
    [fn |-> fn, x |-> x, ct |-> ct, v |-> vel,
     frame |-> fr, pause |-> pause, n_ramp |-> n_ramp, v_max |-> v_max]

GammaCalls == {Call("gamma", NoArg, NoArg, vel, NoArg, NoArg, NoArg, NoArg) : vel \in Velocities}

TransformCalls(fn) ==
    {Call(fn, x, ct, vel, NoArg, NoArg, NoArg, NoArg) :
        x \in Coords, ct \in Coords, vel \in Velocities}

RampCalls ==
    {Call("ramp_v", NoArg, NoArg, NoArg, I(fr), I(p), I(n), vm) :
        fr \in 0..MaxFrame, p \in 0..MaxPause, n \in 0..MaxRamp, vm \in VMaxes}

\* ramp_v(frame) with the default pause, n_ramp and v_max, up to FrameOver frames past the run
DefaultRampCalls ==
    {Call("ramp_v", NoArg, NoArg, NoArg, I(fr), I(PAUSE_FRAMES), I(RAMP_FRAMES - 1), V_MAX) :
        fr \in 0..(TOTAL_FRAMES - 1 + FrameOver)}

NoRet == [st |-> "none", val |-> <<>>, exc |-> ""]

Returned(val) == [st |-> "ok", val |-> val, exc |-> ""]

Raised(exc) == [st |-> "raised", val |-> <<>>, exc |-> exc]

(***************************************************************************)
(* Function harness: one call of one physics function on drawn inputs.     *)
(***************************************************************************)
Idle ==
    /\ prog = "none"
    /\ pc = "idle"
    /\ anim = "none"
    /\ frame = 0
    /\ v = NoArg
    /\ axes = [n \in {} |-> <<>>]
    /\ saved = <<>>
    /\ grabbed = <<>>
    /\ failed = "none"

InitFn ==
    /\ \/ args \in GammaCalls
       \/ args \in TransformCalls("galilean_transform")
       \/ args \in TransformCalls("lorentz_transform")
       \/ args \in RampCalls
       \/ args \in DefaultRampCalls
    /\ ret = NoRet
    /\ fpe = {}
    /\ Idle

call_gamma ==
    /\ args.fn = "gamma"
    /\ ret = NoRet
    /\ ret' = Returned(<<gamma(args.v)>>)
    /\ fpe' = gamma_fpe(args.v)
    /\ UNCHANGED <<args, prog, pc, anim, frame, v, axes, saved, grabbed, failed>>

call_galilean_transform ==
    /\ args.fn = "galilean_transform"
    /\ ret = NoRet
    /\ ret' = Returned(galilean_transform(args.x, args.ct, args.v))
    /\ UNCHANGED <<args, fpe, prog, pc, anim, frame, v, axes, saved, grabbed, failed>>

call_lorentz_transform ==
    /\ args.fn = "lorentz_transform"
    /\ ret = NoRet
    /\ ret' = Returned(lorentz_transform(args.x, args.ct, args.v))
    /\ fpe' = gamma_fpe(args.v)
    /\ UNCHANGED <<args, prog, pc, anim, frame, v, axes, saved, grabbed, failed>>

call_ramp_v ==
    /\ args.fn = "ramp_v"
    /\ ret = NoRet
    /\ ret' = IF ramp_v_raises(args.frame, args.pause, args.n_ramp, args.v_max)
              THEN Raised("ZeroDivisionError")
              ELSE Returned(<<ramp_v(args.frame, args.pause, args.n_ramp, args.v_max)>>)
    /\ UNCHANGED <<args, fpe, prog, pc, anim, frame, v, axes, saved, grabbed, failed>>

NextFn ==
    \/ call_gamma
    \/ call_galilean_transform
    \/ call_lorentz_transform
    \/ call_ramp_v

SpecFn == InitFn /\ [][NextFn]_vars

(***************************************************************************)
(* The animation scripts.  An artist is one drawing call with the numbers  *)
(* it was given; an axes holds its artists in drawing order.               *)
(***************************************************************************)
lorentz_PAUSE_FRAMES == 108

lorentz_RAMP_FRAMES == 1203

lorentz_TOTAL_FRAMES == lorentz_PAUSE_FRAMES + lorentz_RAMP_FRAMES

\* the divisor of the ramp in lorentz.py's animate
lorentz_N_RAMP == 1200

\* the display threshold 0.05 of the velocity-dependent annotations
V_SHOW == F(1, 20)

\* Event A (1, 0) and Event B (0, 1) of both scripts
xA == I(1)

ctA == I(0)

xB == I(0)

ctB == I(1)

Art(name, params) == [art |-> name, p |-> params]

NoAxes == [n \in {} |-> <<>>]

\* faulty variant of Clear: the axes keeps what was drawn on it
Clear_keeps(ax) == ax

\* ax.clear()
Clear(ax) == <<>>

\* the spacetime panel of the Galilean animations (galilean.py, lines 43-69 and 93-116)
galilean_spacetime(vel, A, B) ==
    <<Art("setup_spacetime_ax", <<>>), Art("draw_Sprime_grid", <<>>),
      Art("draw_S_grid_galilean", <<vel>>), Art("draw_origin", <<>>),
      Art("event_A", A), Art("event_B", B), Art("text", A \o B),
      Art("draw_spacetime_legend", <<>>), Art("draw_velocity_label", <<vel>>)>>

\* the physical-space panel of run_two: s_ox = -v, Event A at x' = 1, Event B at x' = xBp
galilean_spatial(vel, B) ==
    <<Art("draw_spatial_panel", <<vel, F(1, 1), Neg(vel)>>),
      Art("event_A", <<I(1), I(0)>>), Art("event_B", <<B[1], I(0)>>),
      Art("legend", <<>>)>>

\* the frame run_single.animate draws at velocity vel
draw_single(ax, vel) ==
    [v |-> vel, fpe |-> {},
     axes |->[ax EXCEPT !["ax"] =
                  Clear(@) \o galilean_spacetime(vel, galilean_transform(xA, ctA, vel),
                                                 galilean_transform(xB, ctB, vel))]]

\* galilean.py, run_single.animate
animate_single(ax, fr) ==
    CHOOSE r \in {draw_single(ax, vel) :
                     vel \in {ramp_v(I(fr), I(PAUSE_FRAMES), I(RAMP_FRAMES - 1), V_MAX)}} : TRUE

\* the frame run_two.animate draws at velocity vel
draw_two(ax, vel) ==
    [v |-> vel, fpe |-> {},
     axes |->[ax EXCEPT
                  !["ax1"] =
                      Clear(@) \o galilean_spacetime(vel, galilean_transform(xA, ctA, vel),
                                                     galilean_transform(xB, ctB, vel)),
                  !["ax2"] =
                      Clear(@) \o galilean_spatial(vel, galilean_transform(xB, ctB, vel))]]

\* galilean.py, run_two.animate
animate_two(ax, fr) ==
    CHOOSE r \in {draw_two(ax, vel) :
                     vel \in {ramp_v(I(fr), I(PAUSE_FRAMES), I(RAMP_FRAMES - 1), V_MAX)}} : TRUE

\* the spacetime panel of the Lorentz animation (lorentz.py, lines 65-101)
lorentz_spacetime(vel, g, A, B) ==
    <<Art("setup_spacetime_ax", <<>>), Art("draw_Sprime_grid", <<>>),
      Art("draw_S_grid_lorentz", <<vel, g>>), Art("draw_origin", <<>>),
      Art("event_A", A), Art("event_B", B), Art("text", A \o B),
      Art("draw_spacetime_legend", <<>>), Art("draw_velocity_label", <<vel, g>>)>>

\* the Event A snapshot: s_origin_A = -v * ctAp, the marker of A, and for v > 0.05
\* the length-contraction bracket from s_origin_A to xAp with its label 1/g.
\* The marker and the bracket are drawn only inside the panel limits SP_XLIM:
\* their artists stand for the guarded calls, with the numbers the guards read.
lorentz_panel_A(vel, g, A, s_origin_A) ==
    <<Art("draw_spatial_panel", <<vel, g, s_origin_A>>), Art("event_A", <<A[1], I(0)>>)>>
    \o (IF Lt(V_SHOW, vel)
        THEN <<Art("bracket", <<s_origin_A, A[1], NpDiv(I(1), g)>>)>> ELSE <<>>)

\* the Event B snapshot: s_origin_B = -v * ctBp, the marker of B (inside SP_XLIM),
\* and for v > 0.05 the time-dilation text
lorentz_panel_B(vel, g, B, s_origin_B) ==
    <<Art("draw_spatial_panel", <<vel, g, s_origin_B>>), Art("event_B", <<B[1], I(0)>>)>>
    \o (IF Lt(V_SHOW, vel) THEN <<Art("time_dilation", <<g>>)>> ELSE <<>>)

\* the frame run.animate draws from the numbers it computed; fpe: the floating-point
\* errors its gamma calls raise
draw_lorentz(ax, vel, g, A, B) ==
    [v |-> vel, fpe |-> gamma_fpe(vel),
     axes |->[ax EXCEPT
                  !["ax_st"] = Clear(@) \o lorentz_spacetime(vel, g, A, B),
                  !["ax_A"] = Clear(@) \o lorentz_panel_A(vel, g, A, Mul(Neg(vel), A[2])),
                  !["ax_B"] = Clear(@) \o lorentz_panel_B(vel, g, B, Mul(Neg(vel), B[2]))]]

\* faulty variant of lorentz_v: the ramp is divided by the pause length
lorentz_v_steep(fr) ==
    PyDiv(Mul(V_MAX, Max(I(0), Sub(I(fr), I(lorentz_PAUSE_FRAMES)))),
          I(lorentz_PAUSE_FRAMES))

\* ramp = max(0, frame - PAUSE_FRAMES); v = 0.99 * ramp / 1200
lorentz_v(fr) ==
    PyDiv(Mul(V_MAX, Max(I(0), Sub(I(fr), I(lorentz_PAUSE_FRAMES)))), I(lorentz_N_RAMP))

\* g = gamma(v); the transformed events; then the three panels
lorentz_frame(ax, vel) ==
    CHOOSE r \in {draw_lorentz(ax, vel, g, A, B) :
                     g \in {gamma(vel)},
                     A \in {lorentz_transform(xA, ctA, vel)},
                     B \in {lorentz_transform(xB, ctB, vel)}} : TRUE

\* lorentz.py, run.animate
animate_lorentz(ax, fr) ==
    CHOOSE r \in {lorentz_frame(ax, vel) : vel \in {lorentz_v(fr)}} : TRUE

\* the animations each script runs, in order (the __main__ blocks)
Animations(p) == IF p = "galilean.py" THEN <<"run_single", "run_two">> ELSE <<"run">>

\* plt.subplots / fig.add_subplot: the axes of an animation's figure
AxesOf(a) ==
    IF a = "run_single" THEN {"ax"}
    ELSE IF a = "run_two" THEN {"ax1", "ax2"}
    ELSE {"ax_st", "ax_A", "ax_B"}

\* faulty variant of FramesOf: the animation is given the ramp frames only
FramesOf_ramp_only(a) == IF a = "run" THEN lorentz_RAMP_FRAMES ELSE RAMP_FRAMES

\* frames=TOTAL_FRAMES of the FuncAnimation
FramesOf(a) == IF a = "run" THEN lorentz_TOTAL_FRAMES ELSE TOTAL_FRAMES

\* the file name handed to save_mp4
FileOf(a) ==
    IF a = "run_single" THEN "galilean_animation.mp4"
    ELSE IF a = "run_two" THEN "galilean_twopanel_animation.mp4"
    ELSE "lorentz_twopanel_animation.mp4"

animate(a, ax, fr) ==
    IF a = "run_single" THEN animate_single(ax, fr)
    ELSE IF a = "run_two" THEN animate_two(ax, fr)
    ELSE animate_lorentz(ax, fr)

Init ==
    /\ prog \in {"galilean.py", "lorentz.py"}
    /\ pc = "main"
    /\ anim = "none"
    /\ frame = 0
    /\ v = NoArg
    /\ axes = NoAxes
    /\ saved = <<>>
    /\ grabbed = <<>>
    /\ failed = "none"
    /\ args = Call("none", NoArg, NoArg, NoArg, NoArg, NoArg, NoArg, NoArg)
    /\ ret = NoRet
    /\ fpe = {}

\* run_single() / run_two() / run() up to the FuncAnimation: the figure and its axes
Begin ==
    /\ pc = "main"
    /\ Len(saved) < Len(Animations(prog))
    /\ anim' = Animations(prog)[Len(saved) + 1]
    /\ axes' = [n \in AxesOf(anim') |-> <<>>]
    /\ frame' = 0
    /\ grabbed' = <<>>
    /\ pc' = "render"
    /\ UNCHANGED <<args, ret, fpe, prog, v, saved, failed>>

\* anim.save draws the next frame: animate(frame), then the writer grabs the figure
Animate ==
    /\ pc = "render"
    /\ frame < FramesOf(anim)
    /\ \E r \in {animate(anim, axes, frame)} :
          /\ v' = r.v
          /\ axes' = r.axes
          /\ fpe' = r.fpe
    /\ grabbed' = Append(grabbed, frame)
    /\ frame' = frame + 1
    /\ UNCHANGED <<args, ret, prog, pc, anim, saved, failed>>

\* after the last frame: the writer finishes the file, plt.close(fig)
Save ==
    /\ pc = "render"
    /\ frame = FramesOf(anim)
    /\ saved' = Append(saved, FileOf(anim))
    /\ axes' = NoAxes
    /\ pc' = "main"
    /\ UNCHANGED <<args, ret, fpe, prog, anim, frame, v, grabbed, failed>>

\* the script ends after its last animation
Exit ==
    /\ pc = "main"
    /\ Len(saved) = Len(Animations(prog))
    /\ pc' = "done"
    /\ UNCHANGED <<args, ret, fpe, prog, anim, frame, v, axes, saved, grabbed, failed>>

Next ==
    \/ Begin
    \/ Animate
    \/ Save
    \/ Exit

Spec == Init /\ [][Next]_vars

\* The script is one sequential Python process: whenever a next statement exists it
\* is executed, so a run that does not fail keeps taking steps.
SpecFair == Init /\ [][Next]_vars /\ WF_vars(Next)

(***************************************************************************)
(* Failures.  A drawing call or the video writer may raise.  Neither       *)
(* script has a try/except, so the exception leaves animate, anim.save,    *)
(* save_mp4 and the run_* function, and ends the interpreter.              *)
(***************************************************************************)
\* faulty variant of OnError: the exception is swallowed and the script carries on
OnError_swallowed(at) == "main"

\* where the script is after an exception was raised at position at
OnError(at) == "aborted"

\* a drawing call inside animate(frame) raises: before the axes were cleared, or
\* after; the frame is not grabbed
AnimateRaises ==
    /\ pc = "render"
    /\ frame < FramesOf(anim)
    /\ axes' \in {axes, [n \in AxesOf(anim) |-> Clear(axes[n])]}
    /\ failed' = "animate"
    /\ pc' = OnError(pc)
    /\ UNCHANGED <<args, ret, fpe, prog, anim, frame, v, saved, grabbed>>

\* the writer raises inside anim.save: when it is set up, when it grabs a frame or
\* when it finishes the file; the file is not completed
SaveRaises ==
    /\ pc = "render"
    /\ failed' = "save_mp4"
    /\ pc' = OnError(pc)
    /\ UNCHANGED <<args, ret, fpe, prog, anim, frame, v, axes, saved, grabbed>>

NextFail ==
    \/ Next
    \/ AnimateRaises
    \/ SaveRaises

SpecFail == Init /\ [][NextFail]_vars

(***************************************************************************)
(* The calls of the physics functions together with the runs of the        *)
(* scripts: a behaviour is one call, or one run.                           *)
(***************************************************************************)
InitAll == InitFn \/ Init

NextAll ==
    \/ NextFn
    \/ Next

SpecAll == InitAll /\ [][NextAll]_vars

(***************************************************************************)
(* Properties.                                                             *)
(***************************************************************************)
\* the harness call of fn has returned
Ok(fn) == args.fn = fn /\ ret.st = "ok"

\* 0 <= vel < 1
InUnit(vel) == Le(I(0), vel) /\ Lt(vel, I(1))

\* C1: for every event (x, ct) and every velocity 0 <= v < 1, the result (x', ct')
\* of lorentz_transform(x, ct, v) has x'^2 - ct'^2 = x^2 - ct^2.
C1_LorentzPreservesInterval ==
    (Ok("lorentz_transform") /\ InUnit(args.v))
        => Eq(Interval(ret.val[1], ret.val[2]), Interval(args.x, args.ct))

\* Event A = (1, 0) at v = 0.3, where gamma is irrational: the interval is still 1
C1_Witness ==
    /\ Ok("lorentz_transform")
    /\ Eq(args.x, I(1)) /\ Eq(args.ct, I(0)) /\ Eq(args.v, F(3, 10))
    /\ ret.val[1].b # QZero
    /\ Eq(Interval(ret.val[1], ret.val[2]), I(1))

\* C2 as stated: for every event with ct # 0 and every v # 0, galilean_transform
\* changes the interval x^2 - ct^2.
C2_GalileanNeverPreservesInterval ==
    (Ok("galilean_transform") /\ ~IsZero(args.ct) /\ ~IsZero(args.v))
        => ~Eq(Interval(ret.val[1], ret.val[2]), Interval(args.x, args.ct))

\* C2 amended: for ct # 0 and v # 0, galilean_transform preserves the interval
\* exactly when x = v*ct/2 (then x' = -x), and changes it for every other event;
\* in particular it changes it for every event with x = 0, such as Event B.
C2_GalileanIntervalChangesUnlessMidpoint ==
    (Ok("galilean_transform") /\ ~IsZero(args.ct) /\ ~IsZero(args.v))
        => /\ Eq(Interval(ret.val[1], ret.val[2]), Interval(args.x, args.ct))
                <=> Eq(Mul(I(2), args.x), Mul(args.v, args.ct))
           /\ IsZero(args.x)
                => ~Eq(Interval(ret.val[1], ret.val[2]), Interval(args.x, args.ct))

\* Event B = (0, 1) at v = 0.6: the interval goes from -1 to 0.36 - 1 = -0.64
C2_Witness ==
    /\ Ok("galilean_transform")
    /\ Eq(args.x, I(0)) /\ Eq(args.ct, I(1)) /\ Eq(args.v, F(3, 5))
    /\ Eq(Interval(ret.val[1], ret.val[2]), F(-16, 25))

\* C3: galilean_transform(x, ct, v) returns (x - v*ct, ct) for every event and
\* every v: x' + v*ct = x, the time coordinate comes back with the value it had
\* (as a float), and the origin maps to the origin.
C3_GalileanFormula ==
    Ok("galilean_transform")
        => /\ Eq(Add(ret.val[1], Mul(args.v, args.ct)), args.x)
           /\ Eq(ret.val[2], args.ct)
           /\ ret.val[2].f
           /\ (IsZero(args.x) /\ IsZero(args.ct))
                => (IsZero(ret.val[1]) /\ IsZero(ret.val[2]))

\* galilean_transform(1, 2, -1.5) = (4.0, 2.0): the int ct = 2 comes back as 2.0
C3_Witness ==
    /\ Ok("galilean_transform")
    /\ args.x = I(1) /\ args.ct = I(2) /\ Eq(args.v, F(-3, 2))
    /\ ret.val = <<F(4, 1), F(2, 1)>>

\* C4: for 0 <= v < 1, lorentz_transform(x, ct, v) = (g*(x - v*ct), g*(ct - v*x))
\* with g = 1/sqrt(1 - v^2), stated without g:  x' * sqrt(1 - v^2) = x - v*ct and
\* ct' * sqrt(1 - v^2) = ct - v*x.  At v = 0.6 Event A maps to (1.25, -0.75) and
\* Event B to (-0.75, 1.25).
C4_LorentzFormula ==
    (Ok("lorentz_transform") /\ InUnit(args.v))
        => LET s == NpSqrt(Sub(I(1), Mul(args.v, args.v)))
           IN  /\ Eq(Mul(ret.val[1], s), Sub(args.x, Mul(args.v, args.ct)))
               /\ Eq(Mul(ret.val[2], s), Sub(args.ct, Mul(args.v, args.x)))
               /\ (Eq(args.v, F(3, 5)) /\ Eq(args.x, I(1)) /\ Eq(args.ct, I(0)))
                    => (Eq(ret.val[1], F(5, 4)) /\ Eq(ret.val[2], F(-3, 4)))
               /\ (Eq(args.v, F(3, 5)) /\ Eq(args.x, I(0)) /\ Eq(args.ct, I(1)))
                    => (Eq(ret.val[1], F(-3, 4)) /\ Eq(ret.val[2], F(5, 4)))

\* lorentz_transform(1, 0, 0.6) has returned (1.25, -0.75)
C4_Witness ==
    /\ Ok("lorentz_transform")
    /\ Eq(args.x, I(1)) /\ Eq(args.ct, I(0)) /\ Eq(args.v, F(3, 5))
    /\ ret.val = <<F(5, 4), F(-3, 4)>>

\* C5 as stated: for every v, also v >= 1 and v <= -1, lorentz_transform(0, 0, v)
\* returns exactly (0, 0).
C5_LorentzOriginFixed ==
    (Ok("lorentz_transform") /\ IsZero(args.x) /\ IsZero(args.ct))
        => (Eq(ret.val[1], I(0)) /\ Eq(ret.val[2], I(0)))

\* C6 as stated: for every v, gamma(v) neither divides by zero nor takes the
\* square root of a negative number: whenever 1 - v^2 <= 0 it returns the sentinel.
C6_GammaGuardsSingularity ==
    Ok("gamma")
        => /\ fpe = {}
           /\ Le(Sub(I(1), Mul(args.v, args.v)), I(0)) => Eq(ret.val[1], SENTINEL)

\* C7: for every v >= 1 gamma(v) is the one finite constant 1e6; for v < 1 it is
\* 1/sqrt(1 - v^2) as numpy evaluates it: for -1 < v < 1 the positive g with
\* g^2 * (1 - v^2) = 1, for v = -1 the quotient 1/0 = inf, for v < -1 nan.
C7_GammaBranches ==
    Ok("gamma")
        => LET g == ret.val[1]
               r == Sub(I(1), Mul(args.v, args.v))
           IN  IF ~Lt(args.v, I(1)) THEN g = F(1000000, 1)
               ELSE IF Sign(r) > 0
                    THEN IsFin(g) /\ Sign(g) > 0 /\ Eq(Mul(Mul(g, g), r), I(1))
               ELSE IF Sign(r) = 0 THEN g = PosInf
               ELSE g = NaN

\* gamma(1.5) has returned 1e6
C7_Witness == Ok("gamma") /\ Eq(args.v, F(3, 2)) /\ Eq(ret.val[1], F(1000000, 1))

\* C8: for 0 <= v < 1, gamma(v) >= 1, and gamma(0) = 1.
C8_GammaAtLeastOne ==
    (Ok("gamma") /\ InUnit(args.v))
        => /\ Le(I(1), ret.val[1])
           /\ IsZero(args.v) => Eq(ret.val[1], I(1))

\* gamma(0.99) has returned a value above 7
C8_Witness == Ok("gamma") /\ Eq(args.v, F(99, 100)) /\ Lt(I(7), ret.val[1])

\* C9 as stated: for every frame >= 0, also beyond pause + n_ramp, and every
\* pause >= 0, n_ramp >= 1, v_max >= 0, ramp_v(frame, pause, n_ramp, v_max) <= v_max.
C9_RampNeverExceedsVmax ==
    (Ok("ramp_v") /\ Le(I(1), args.n_ramp) /\ Le(I(0), args.v_max))
        => Le(ret.val[1], args.v_max)

\* a frame of an animation has been rendered
Rendered == pc = "render" /\ frame > 0

DrawnGamma == axes["ax_st"][3].p[2]

\* C11: in every rendered frame of every animation v < 1.  In the Lorentz animation,
\* the only one that calls gamma, 1 - v^2 > 0 at every frame, so gamma is on its
\* 1/sqrt(1 - v^2) branch: the g the frame is drawn with is finite, is not the
\* sentinel 1e6, satisfies g^2 * (1 - v^2) = 1, and no floating-point error was raised.
C11_GammaRegularInEveryFrame ==
    Rendered
        => /\ Lt(v, I(1))
           /\ anim = "run"
                => /\ Sign(Sub(I(1), Mul(v, v))) > 0
                   /\ fpe = {}
                   /\ IsFin(DrawnGamma)
                   /\ ~Eq(DrawnGamma, SENTINEL)
                   /\ Eq(Mul(Mul(DrawnGamma, DrawnGamma), Sub(I(1), Mul(v, v))), I(1))

\* a Lorentz frame at the peak velocity 0.99165, the closest any frame comes to 1
C11_Witness ==
    /\ Rendered
    /\ anim = "run"
    /\ Eq(v, F(19833, 20000))
    /\ DrawnGamma.b # QZero
    /\ fpe = {}

\* the frame argument of the harness call, as an integer
ArgFrame == args.frame.a[1]

\* ramp_v has returned for a call with pause >= 0, n_ramp >= 1, v_max >= 0: its value
\* is at least the value ramp_v gives at every earlier frame
RampAboveEarlierFrames ==
    (Ok("ramp_v") /\ Le(I(0), args.pause) /\ Le(I(1), args.n_ramp) /\ Le(I(0), args.v_max))
        => \A f \in 0..ArgFrame :
              Le(ramp_v(I(f), args.pause, args.n_ramp, args.v_max), ret.val[1])

\* animate has rendered the next frame of the animation it had already begun
NextFrameStep == pc = "render" /\ pc' = "render" /\ frame > 0 /\ frame' = frame + 1

\* C12: for pause >= 0, n_ramp >= 1 and v_max >= 0, ramp_v is non-decreasing in frame
\* (frame1 <= frame2 implies ramp_v(frame1) <= ramp_v(frame2)); and in every run the
\* velocity of each frame is at least the velocity of the frame before it.
C12_RampNonDecreasing ==
    /\ []RampAboveEarlierFrames
    /\ [][NextFrameStep => Le(v, v')]_vars

\* ramp_v(8, 2, 3, 0.5) has returned 1.0, above every earlier frame
C12_Witness ==
    /\ Ok("ramp_v")
    /\ args.frame = I(8) /\ args.pause = I(2) /\ args.n_ramp = I(3)
    /\ Eq(args.v_max, F(1, 2))
    /\ Eq(ret.val[1], I(1))
    /\ Lt(ramp_v(I(7), args.pause, args.n_ramp, args.v_max), ret.val[1])

\* C13: ramp_v returns exactly 0 for every frame < pause (the pause window), and
\* v_max*(frame - pause)/n_ramp for every frame >= pause, with no offset and no other
\* scaling: the returned value times n_ramp is v_max*(frame - pause).
C13_RampPiecewise ==
    Ok("ramp_v")
        => IF Lt(args.frame, args.pause)
           THEN Eq(ret.val[1], F(0, 1))
           ELSE /\ Eq(Mul(ret.val[1], args.n_ramp), Mul(args.v_max, Sub(args.frame, args.pause)))
                /\ Eq(ret.val[1], PyDiv(Mul(args.v_max, Sub(args.frame, args.pause)),
                                        args.n_ramp))

\* ramp_v(236) with the defaults has returned 0.99 * 200/400 = 0.495
C13_Witness ==
    /\ Ok("ramp_v")
    /\ args.frame = I(PAUSE_FRAMES + 200)
    /\ args.pause = I(PAUSE_FRAMES) /\ args.n_ramp = I(RAMP_FRAMES - 1) /\ args.v_max = V_MAX
    /\ Eq(ret.val[1], F(99, 200))

\* the harness call is ramp_v(frame) with the default pause, n_ramp and v_max
DefaultRamp ==
    /\ args.fn = "ramp_v"
    /\ args.pause = I(PAUSE_FRAMES) /\ args.n_ramp = I(RAMP_FRAMES - 1) /\ args.v_max = V_MAX

\* C14: for pause >= 0 and n_ramp >= 1, ramp_v(pause + n_ramp, pause, n_ramp, v_max)
\* is v_max; with the default constants the final frame TOTAL_FRAMES - 1 is the frame
\* pause + n_ramp, and ramp_v(TOTAL_FRAMES - 1) is within 1e-3 (relative) of 0.99.
C14_RampEndsAtVmax ==
    (Ok("ramp_v") /\ Le(I(0), args.pause) /\ Le(I(1), args.n_ramp))
        => /\ Eq(args.frame, Add(args.pause, args.n_ramp)) => Eq(ret.val[1], args.v_max)
           /\ (DefaultRamp /\ args.frame = I(TOTAL_FRAMES - 1))
                => /\ Eq(args.frame, Add(args.pause, args.n_ramp))
                   /\ Le(Sub(ret.val[1], F(99, 100)), Mul(F(99, 100), F(1, 1000)))
                   /\ Le(Sub(F(99, 100), ret.val[1]), Mul(F(99, 100), F(1, 1000)))

\* ramp_v(436) with the defaults, the last frame of a Galilean run, has returned 0.99
C14_Witness ==
    /\ Ok("ramp_v")
    /\ DefaultRamp
    /\ args.frame = I(TOTAL_FRAMES - 1)
    /\ Eq(ret.val[1], F(99, 100))

\* the frame indices 0 .. n-1 in increasing order
FirstFrames(n) == [i \in 1..n |-> i - 1]

\* pause window plus ramp window of the configuration animation a runs with
WindowFrames(a) ==
    IF a = "run" THEN lorentz_PAUSE_FRAMES + lorentz_RAMP_FRAMES
    ELSE PAUSE_FRAMES + RAMP_FRAMES

\* while an animation renders, the frames taken so far are 0, 1, ..., frame - 1, each
\* once and in increasing order, and never more than pause + ramp of them; a file
\* is written at most once; at the end every animation of the script has its file
SinglePass ==
    /\ pc = "render"
          => /\ grabbed = FirstFrames(frame)
             /\ frame <= WindowFrames(anim)
             /\ \A i \in 1..Len(saved) : saved[i] # FileOf(anim)
    /\ \A i, j \in 1..Len(saved) : saved[i] = saved[j] => i = j
    /\ pc = "done" => Len(saved) = Len(Animations(prog))

\* a step that writes a file writes the file of the current animation, after all
\* pause + ramp frames 0 .. TOTAL_FRAMES - 1 were taken
EncodeAfterLastFrame ==
    saved' # saved
        => /\ saved' = Append(saved, FileOf(anim))
           /\ grabbed = FirstFrames(WindowFrames(anim))
           /\ grabbed[Len(grabbed)] = TOTAL_FRAMES - 1
                \/ grabbed[Len(grabbed)] = lorentz_TOTAL_FRAMES - 1

Blank(a) == [n \in AxesOf(a) |-> <<>>]

\* frames rendered next for comparison: the frame just rendered once more, the first
\* frame (a step back) and the last frame (a jump ahead)
Revisited == {frame - 1, 0, FramesOf(anim) - 1}

\* C16: animate(frame) clears every axes it draws on before it draws, so no state
\* carries over between frames: the canvas after frame f is what f draws on an empty
\* figure, and rendering any frame over whatever the canvas holds (the same frame
\* again, an earlier one, a later one) gives what that frame draws on an empty figure.
C16_CanvasDependsOnFrameOnly ==
    Rendered
        => /\ axes = animate(anim, Blank(anim), frame - 1).axes
           /\ \A f \in Revisited :
                 animate(anim, axes, f).axes = animate(anim, Blank(anim), f).axes

\* run_two after its first ramp frame: each panel holds the artists of that one frame
C16_Witness ==
    /\ Rendered
    /\ anim = "run_two"
    /\ frame = PAUSE_FRAMES + 2
    /\ Len(axes["ax1"]) = Len(galilean_spacetime(v, <<v, v>>, <<v, v>>))
    /\ Len(axes["ax2"]) = Len(galilean_spatial(v, <<v, v>>))
    /\ axes["ax1"][3] = Art("draw_S_grid_galilean", <<F(99, 40000)>>)

\* after a call has raised the script is aborted, and the file of the animation that
\* was being rendered has not been written
Aborted ==
    failed # "none"
        => /\ pc = "aborted"
           /\ \A i \in 1..Len(saved) : saved[i] # FileOf(anim)
           /\ Len(saved) < Len(Animations(prog))

\* every step is taken while nothing has failed; the step in which a call raises
\* renders no frame, hands none to the writer, writes no file, starts no animation
StepsOnlyBeforeFailure ==
    /\ failed = "none"
    /\ failed' # "none" => UNCHANGED <<frame, grabbed, saved, anim, v>>

\* C17: there is no retry and no recovery: when a drawing call of a frame raises, or
\* the writer raises, the script aborts there: no later frame is rendered, the failed
\* step is not taken again, no file is written and no later animation is started
\* (galilean.py does not begin run_two after run_single failed).
C17_FailureAborts ==
    /\ []Aborted
    /\ [][StepsOnlyBeforeFailure]_vars

\* galilean.py: a drawing call of frame 5 of run_single raised after the axes was
\* cleared; five frames were taken, no file exists, run_two was never begun
C17_Witness ==
    /\ failed = "animate"
    /\ pc = "aborted"
    /\ prog = "galilean.py"
    /\ anim = "run_single"
    /\ frame = 5
    /\ grabbed = FirstFrames(5)
    /\ axes = Blank("run_single")
    /\ saved = <<>>

\* C18: for 0 <= v < 1 and every event (x, ct), the image (x', ct') under
\* lorentz_transform lies on the lines ct' = -v*x' + ct/g and x' = -v*ct' + x/g of
\* draw_S_grid_lorentz with g = gamma(v), and the image under galilean_transform
\* lies on the lines ct' = ct and x' = x - v*ct' of draw_S_grid_galilean.
C18_GridThroughTransformedEvent ==
    /\ (Ok("lorentz_transform") /\ InUnit(args.v))
          => /\ Eq(ret.val[2], lorentz_ct_line(ret.val[1], args.ct, args.v, gamma(args.v)))
             /\ Eq(ret.val[1], lorentz_x_line(ret.val[2], args.x, args.v, gamma(args.v)))
    /\ (Ok("galilean_transform") /\ InUnit(args.v))
          => /\ Eq(ret.val[2], galilean_ct_line(ret.val[1], args.ct, args.v))
             /\ Eq(ret.val[1], galilean_x_line(ret.val[2], args.x, args.v))

\* the event (2, -2), on the drawn lines x = 2 and t = -2, at v = 0.9 where g is
\* irrational: its Lorentz image is on both lines
C18_Witness ==
    /\ Ok("lorentz_transform")
    /\ args.x = I(2) /\ args.ct = I(-2) /\ Eq(args.v, F(9, 10))
    /\ ret.val[1].b # QZero
    /\ Eq(ret.val[2], lorentz_ct_line(ret.val[1], I(-2), F(9, 10), gamma(F(9, 10))))
    /\ Eq(ret.val[1], lorentz_x_line(ret.val[2], I(2), F(9, 10), gamma(F(9, 10))))

\* what the Event-A panel of the last Lorentz frame was drawn with:
\* draw_spatial_panel(ax_A, v, g, s_origin_A, ...) and the marker of A at (xAp, 0)
PanelA == [g |-> axes["ax_A"][1].p[2], s_origin |-> axes["ax_A"][1].p[3],
           xAp |-> axes["ax_A"][2].p[1]]

\* C19: with (xAp, ctAp) = lorentz_transform(1, 0, v) and s_origin_A = -v*ctAp,
\* xAp - s_origin_A = 1/gamma(v) for every 0 <= v < 1.  In every frame of the
\* Lorentz animation the Event-A panel is drawn with these numbers: the distance from
\* the S origin to A is 1/g, the tick spacing of draw_spatial_panel, so A is on S tick
\* n = 1, and the bracket label, when the bracket is drawn, shows that distance.
C19_EventAOnFirstTick ==
    /\ (Ok("lorentz_transform") /\ Eq(args.x, xA) /\ Eq(args.ct, ctA) /\ InUnit(args.v))
          => /\ Eq(Sub(ret.val[1], Mul(Neg(args.v), ret.val[2])), NpDiv(F(1, 1), gamma(args.v)))
             /\ Eq(spatial_tick(Mul(Neg(args.v), ret.val[2]), 1, gamma(args.v)), ret.val[1])
    /\ (Rendered /\ anim = "run")
          => /\ Eq(Sub(PanelA.xAp, PanelA.s_origin), NpDiv(F(1, 1), gamma(v)))
             /\ Eq(spatial_tick(PanelA.s_origin, 1, PanelA.g), PanelA.xAp)
             /\ Len(axes["ax_A"]) > 2
                  => Eq(axes["ax_A"][3].p[3], Sub(axes["ax_A"][3].p[2], axes["ax_A"][3].p[1]))

\* a Lorentz frame in the ramp, drawn with an irrational g: the S origin has moved
\* right of O' and Event A is 1/g beyond it
C19_Witness ==
    /\ Rendered
    /\ anim = "run"
    /\ frame = lorentz_PAUSE_FRAMES + 602
    /\ PanelA.g.b # QZero
    /\ Lt(I(0), PanelA.s_origin)
    /\ Lt(PanelA.s_origin, PanelA.xAp)
    /\ axes["ax_A"][3].art = "bracket"

=============================================================================
